---- MODULE Spec2Model ----
(***************************************************************************)
(* scripts/tilestache-seed.py: the coordinate sources (generateCoordinates, *)
(* listCoordinates, tilesetCoordinates) and the seed loop of __main__       *)
(* (setup, retry loop, error list, progress file).                          *)
(*                                                                          *)
(* Text (tile-list lines, error-list lines, tile paths, zoom arguments) is  *)
(* a sequence of one-character strings; a file is a sequence of lines, each *)
(* line ending in "\n".  A geographic position is a fixed-point number: the *)
(* projection gives a Coordinate with integer row/column at zoom ProjZoom.  *)
(***************************************************************************)
EXTENDS Integers, Sequences, FiniteSets, TLC

\* ------------------------------------------------------------------ bounds
\* Fixed-point precision of projected locations (fractional zoom levels).
ProjZoom == 2
\* Latitudes and longitudes are drawn from 0..MaxCoord.
MaxCoord == 2
\* Padding is drawn from -1..MaxPadding (setup) or 0..MaxPadding (sources).
MaxPadding == 1
\* Longest zoom list handed to the flood-fill source.
MaxZooms == 2
\* Longest tile list handed to the explicit-list source.
MaxLines == 2
\* Longest coordinate list of a tileset handed to the tileset source.
MaxTiles == 2
\* Most failing backend calls of one run of a backend that is not always failing.
MaxFailures == 3

\* The prefix of the stream the seed loop keeps (line 252).
MaxPrefix == 10

\* -------------------------------------------------------------------- text
Digits == <<"0", "1", "2", "3", "4", "5", "6", "7", "8", "9">>

DigitSet == {Digits[i] : i \in 1..10}

Whitespace == {" ", "\n"}

DigitVal(c) == CHOOSE v \in 0..9 : Digits[v + 1] = c

RECURSIVE Pow2(_)
Pow2(n) == IF n <= 0 THEN 1 ELSE 2 * Pow2(n - 1)

\* Variant: The sign of a negative number dropped.
FormatDMut(n) ==
    LET RECURSIVE nat(_)
        nat(k) == IF k < 10 THEN <<Digits[k + 1]>> ELSE nat(k \div 10) \o <<Digits[(k % 10) + 1]>>
    IN  IF n < 0 THEN nat(0 - n) ELSE nat(n)

\* '%d' % n
RECURSIVE FormatNat(_)
FormatNat(n) == IF n < 10 THEN <<Digits[n + 1]>>
                ELSE FormatNat(n \div 10) \o <<Digits[(n % 10) + 1]>>

FormatD(n) == IF n < 0 THEN <<"-">> \o FormatNat(-n) ELSE FormatNat(n)

\* str.isdigit(): non-empty and every character a digit.
IsDigit(s) == Len(s) > 0 /\ \A i \in 1..Len(s) : s[i] \in DigitSet

RECURSIVE DigitsValue(_)
DigitsValue(s) == IF Len(s) = 0 THEN 0
                  ELSE 10 * DigitsValue(SubSeq(s, 1, Len(s) - 1)) + DigitVal(s[Len(s)])

\* str.strip(): leading and trailing whitespace removed.
RECURSIVE Strip(_)
Strip(s) == IF Len(s) = 0 THEN s
            ELSE IF s[1] \in Whitespace THEN Strip(Tail(s))
            ELSE IF s[Len(s)] \in Whitespace THEN Strip(SubSeq(s, 1, Len(s) - 1))
            ELSE s

\* str.split(sep): the fields between the separators, empty fields kept.
RECURSIVE Split(_, _)
Split(s, sep) ==
    IF \A i \in 1..Len(s) : s[i] # sep THEN <<s>>
    ELSE LET k == CHOOSE i \in 1..Len(s) : s[i] = sep /\ \A j \in 1..(i - 1) : s[j] # sep
         IN  <<SubSeq(s, 1, k - 1)>> \o Split(SubSeq(s, k + 1, Len(s)), sep)

\* int(text): surrounding whitespace and one sign allowed, then digits only.
IntBody(s) == IF Len(s) > 0 /\ s[1] \in {"-", "+"} THEN Tail(s) ELSE s

IntOk(s) == IsDigit(IntBody(Strip(s)))

IntValue(s) == LET t == Strip(s)
               IN  IF t[1] = "-" THEN 0 - DigitsValue(IntBody(t)) ELSE DigitsValue(IntBody(t))

\* ------------------------------------------------------------- coordinates
\* ModestMaps Coordinate(row, column, zoom).
Coordinate(row, column, zoom) == [row |-> row, column |-> column, zoom |-> zoom]

\* layer.projection.locationCoordinate(Location(lat, lon)): rows grow to the
\* south, columns to the east; the world is Pow2(ProjZoom) units wide.
locationCoordinate(lat, lon) == Coordinate(Pow2(ProjZoom) - 1 - lat, lon, ProjZoom)

Min(a, b) == IF a <= b THEN a ELSE b

Max(a, b) == IF a >= b THEN a ELSE b

\* Lines 219-227: the corners of the normalised bounding box.
northwest(bbox) == locationCoordinate(Max(bbox[1], bbox[3]), Min(bbox[2], bbox[4]))

southeast(bbox) == locationCoordinate(Min(bbox[1], bbox[3]), Max(bbox[2], bbox[4]))

\* coord.zoomTo(zoom).container(): scale to the zoom level, then floor.
zoomToContainer(c, zoom) ==
    Coordinate((c.row * Pow2(zoom)) \div Pow2(c.zoom),
               (c.column * Pow2(zoom)) \div Pow2(c.zoom), zoom)

\* Variant: The corner moved left but not up.
paddedULMut(ul, zoom, padding) ==
    LET c == zoomToContainer(ul, zoom)
    IN  Coordinate(c.row, c.column - padding, zoom)

\* ul.zoomTo(zoom).container().left(padding).up(padding)
paddedUL(ul, zoom, padding) ==
    LET c == zoomToContainer(ul, zoom)
    IN  Coordinate(c.row - padding, c.column - padding, zoom)

\* lr.zoomTo(zoom).container().right(padding).down(padding)
paddedLR(lr, zoom, padding) ==
    LET c == zoomToContainer(lr, zoom)
    IN  Coordinate(c.row + padding, c.column + padding, zoom)

\* One stream item: the tuple (offset, count, coord).
Item(offset, count, coord) == [offset |-> offset, count |-> count, coord |-> coord]

\* ------------------------------------------------------ generateCoordinates
\* Variant: The span taken as exclusive of its last row and column.
zoomCountMut(ul, lr, zoom, padding) ==
    LET ul_ == paddedUL(ul, zoom, padding)
        lr_ == paddedLR(lr, zoom, padding)
    IN  (lr_.row - ul_.row) * (lr_.column - ul_.column)

\* Lines 99-108: the total, summed over the zoom list.
zoomCount(ul, lr, zoom, padding) ==
    LET ul_ == paddedUL(ul, zoom, padding)
        lr_ == paddedLR(lr, zoom, padding)
        rows == lr_.row + 1 - ul_.row
        cols == lr_.column + 1 - ul_.column
    IN  rows * cols

RECURSIVE countLoop(_, _, _, _)
countLoop(ul, lr, zooms, padding) ==
    IF Len(zooms) = 0 THEN 0
    ELSE zoomCount(ul, lr, Head(zooms), padding) + countLoop(ul, lr, Tail(zooms), padding)

\* Lines 119-124: the inner loop, columns column..stop-1 of one row.
RECURSIVE columnLoop(_, _, _, _, _, _)
columnLoop(row, column, stop, zoom, offset, count) ==
    IF column >= stop THEN <<>>
    ELSE <<Item(offset, count, Coordinate(row, column, zoom))>>
         \o columnLoop(row, column + 1, stop, zoom, offset + 1, count)

\* Lines 118-124: the rows row..stop-1 of one zoom level.
RECURSIVE rowLoop(_, _, _, _, _, _, _)
rowLoop(row, stop, ul_, lr_, zoom, offset, count) ==
    IF row >= stop THEN <<>>
    ELSE LET cols == columnLoop(row, ul_.column, lr_.column + 1, zoom, offset, count)
         IN  cols \o rowLoop(row + 1, stop, ul_, lr_, zoom, offset + Len(cols), count)

\* Variant: The offset started again at every zoom level.
RECURSIVE zoomLoopMut(_, _, _, _, _, _)
zoomLoopMut(ul, lr, zooms, padding, offset, count) ==
    IF Len(zooms) = 0 THEN <<>>
    ELSE LET zoom == Head(zooms)
             ul_ == paddedUL(ul, zoom, padding)
             lr_ == paddedLR(lr, zoom, padding)
             rows == rowLoop(ul_.row, lr_.row + 1, ul_, lr_, zoom, 0, count)
         IN  rows \o zoomLoopMut(ul, lr, Tail(zooms), padding, 0, count)

\* Lines 112-124: the zoom levels in the order given, one running offset.
RECURSIVE zoomLoop(_, _, _, _, _, _)
zoomLoop(ul, lr, zooms, padding, offset, count) ==
    IF Len(zooms) = 0 THEN <<>>
    ELSE LET zoom == Head(zooms)
             ul_ == paddedUL(ul, zoom, padding)
             lr_ == paddedLR(lr, zoom, padding)
             rows == rowLoop(ul_.row, lr_.row + 1, ul_, lr_, zoom, offset, count)
         IN  rows \o zoomLoop(ul, lr, Tail(zooms), padding, offset + Len(rows), count)

generateCoordinates(ul, lr, zooms, padding) ==
    zoomLoop(ul, lr, zooms, padding, 0, countLoop(ul, lr, zooms, padding))

\* ---------------------------------------------------------- listCoordinates
\* Line 131: line.strip().split('/')
lineFields(line) == Split(Strip(line), "/")

\* Line 132: the unpacking (zoom, column, row) needs three fields, and int()
\* needs each of them to be an integer.
lineOk(line) ==
    LET f == lineFields(line)
    IN  Len(f) = 3 /\ \A i \in 1..3 : IntOk(f[i])

\* Variant: The second and third field read as row and column.
lineCoordinateMut(line) ==
    LET f == lineFields(line)
    IN  Coordinate(IntValue(f[2]), IntValue(f[3]), IntValue(f[1]))

\* Lines 132-133: Coordinate(int(row), int(column), int(zoom)), with
\* (zoom, column, row) the three fields in this order.
lineCoordinate(line) ==
    LET f == lineFields(line)
    IN  Coordinate(IntValue(f[3]), IntValue(f[2]), IntValue(f[1]))

\* Variant: Offsets counted from 1.
enumerateMut(coords, count) ==
    [i \in 1..Len(coords) |-> Item(i, count, coords[i])]

\* Lines 137-138 and 148-149: enumerate(coords) with the count fixed before.
enumerate(coords, count) ==
    [i \in 1..Len(coords) |-> Item(i - 1, count, coords[i])]

\* A leading run of lines that parse.
RECURSIVE okPrefix(_)
okPrefix(lines) ==
    IF Len(lines) = 0 \/ ~lineOk(Head(lines)) THEN <<>>
    ELSE <<Head(lines)>> \o okPrefix(Tail(lines))

\* Variant: The file read line by line as items are asked for, so that only
\* the lines before the first bad one are seen before the loop runs.
linesReadMut(lines) == okPrefix(lines)

\* Lines 131-133: the list comprehension reads and converts every line of
\* the file before the first item is yielded.
linesRead(lines) == lines

\* The file parses when every line does; otherwise the source raises.
listOk(lines) == \A i \in 1..Len(lines) : lineOk(lines[i])

listCoordinates(lines) ==
    LET coords == [i \in 1..Len(lines) |-> lineCoordinate(lines[i])]
    IN  enumerate(coords, Len(coords))

\* ------------------------------------------------------- tilesetCoordinates
\* MBTiles.list_tiles(filename) is the tileset's own list, in its order.
tilesetCoordinates(tileset) == enumerate(tileset.tiles, Len(tileset.tiles))

\* ------------------------------------------------------------------- state
VARIABLES
    options,       \* the parsed command line and the files it names
    backendMode,   \* how getTile behaves in this run: "failing" or "flaky"
    failuresLeft,  \* failing calls a flaky backend may still make
    pc,            \* where the script is
    layerName,     \* layer.name()
    extension,     \* the global extension
    zooms,         \* the zoom arguments once converted by int()
    stream,        \* what the selected coordinate source yields
    coordinates,   \* the list the seed loop iterates (line 252)
    idx,           \* items the for loop has taken from coordinates
    progress,      \* the progress dict of the current item
    attempts,      \* remaining attempts of the current item
    rendered,      \* the rendered flag of the current item
    errorFile,     \* lines of the error list file
    progressFile,  \* <<>> or <<the JSON object last written>>
    calls,         \* getTile calls made for the current item
    okCall,        \* which call of the current item succeeded, 0 if none
    attempted,     \* items that got at least one getTile call
    outcomes,      \* per item that left the while loop: "ok" or "exhausted"
    writes         \* times the progress file was written

vars == <<options, backendMode, failuresLeft, pc, layerName, extension, zooms,
          stream, coordinates, idx, progress, attempts, rendered, errorFile,
          progressFile, calls, okCall, attempted, outcomes, writes>>

\* ------------------------------------------------------------ command line
Chars(str) ==
    CASE str = "osm" -> <<"o", "s", "m">>
      [] str = "bogus" -> <<"b", "o", "g", "u", "s">>
      [] str = "tiles-layer" -> <<"t", "i", "l", "e", "s", "-", "l", "a", "y", "e", "r">>
      [] str = "png" -> <<"p", "n", "g">>
      [] str = "jpg" -> <<"j", "p", "g">>
      [] str = "KB" -> <<"K", "B">>
      [] OTHER -> <<>>

\* options.layer: <<>> stands for None.
LayerNone == <<>>

\* The layers of the configuration file.
ConfigLayers == {Chars("osm")}

Layers == {LayerNone, Chars("osm"), Chars("bogus")}

\* defaults['extension'] (line 41).
DefaultExtension == Chars("png")

\* The bounding box of the run: lat1, lon1, lat2, lon2.
JobBoxes == {<<0, 0, 2, 2>>, <<2, 0, 1, 1>>}

\* Zoom arguments: lists of tokens.
ZoomArgs == {<<>>, <<<<"2">>>>, <<<<"0">>, <<"2">>>>, <<<<"x">>>>, <<<<"2">>, <<"-", "1">>>>}

\* Tilesets: what MBTiles.list_tiles and MBTiles.tileset_info report.
NoTileset == [tiles |-> <<>>, format |-> <<>>]

Tilesets == {[tiles |-> <<Coordinate(1, 0, 1), Coordinate(0, 0, 1), Coordinate(1, 0, 1)>>,
              format |-> Chars("jpg")],
             [tiles |-> <<Coordinate(0, 0, 0)>>, format |-> <<>>]}

\* Tile list files.
Line(zoom, column, row) == FormatD(zoom) \o <<"/">> \o FormatD(column) \o <<"/">> \o FormatD(row) \o <<"\n">>

TileListFiles == {<<Line(12, 600, 1200), Line(12, 601, 1200)>>,
                  <<Line(1, 0, 1), <<"1", "/", "0", "\n">>>>,
                  <<Line(1, 1, 0), <<"1", "/", "x", "/", "0", "\n">>, Line(1, 0, 0)>>,
                  <<>>}

JobOptions ==
    {o \in [config : BOOLEAN, layer : Layers, bbox : JobBoxes,
            padding : (-1)..MaxPadding, zooms : ZoomArgs,
            extension : {DefaultExtension},
            outputdirectory : BOOLEAN, mbtiles_output : BOOLEAN,
            mbtiles_input : BOOLEAN, tileset : Tilesets \cup {NoTileset},
            tile_list : BOOLEAN, tile_list_file : TileListFiles,
            error_list : BOOLEAN, enable_retries : BOOLEAN, progressfile : BOOLEAN] :
        /\ o.mbtiles_input <=> o.tileset # NoTileset
        /\ ~o.tile_list => o.tile_list_file = <<>>}

\* ------------------------------------------------------------------- setup
has_fake_destination(o) == o.outputdirectory \/ o.mbtiles_output

has_fake_source(o) == o.mbtiles_input

\* Lines 173-194: the layer of the run, or the KnownUnknown raised.
layerKnown(o) ==
    \/ has_fake_destination(o) /\ has_fake_source(o)
    \/ o.config /\ o.layer # LayerNone /\ o.layer \in ConfigLayers

\* layer.name(): the key of the layer in config.layers.
layerNameOf(o) ==
    IF has_fake_destination(o) /\ has_fake_source(o)
    THEN (IF o.layer # LayerNone THEN o.layer ELSE Chars("tiles-layer"))
    ELSE o.layer

\* Lines 199-208: MBTiles.Cache(..., extension, ...) reads the global
\* extension, which is bound only on line 210: a NameError.
cacheNameError(o) == o.mbtiles_output

\* Lines 210-215.
extensionOf(o) ==
    IF o.mbtiles_input /\ o.tileset.format # <<>> THEN o.tileset.format ELSE o.extension

\* Lines 229-233: every zoom argument passes isdigit().
zoomsOk(o) == \A i \in 1..Len(o.zooms) : IsDigit(o.zooms[i])

zoomsOf(o) == [i \in 1..Len(o.zooms) |-> DigitsValue(o.zooms[i])]

\* Variant: No check of the padding.
paddingOkMut(o) == TRUE

\* Lines 235-236.
paddingOk(o) == ~(o.padding < 0)

\* Lines 167-243 in the order the script runs them.
setupOutcome(o) ==
    IF ~layerKnown(o) THEN "usage_error"
    ELSE IF cacheNameError(o) THEN "name_error"
    ELSE IF ~zoomsOk(o) THEN "usage_error"
    ELSE IF ~paddingOk(o) THEN "usage_error"
    ELSE "stream"

Init ==
    /\ options \in JobOptions
    /\ backendMode \in {"failing", "flaky"}
    /\ failuresLeft = MaxFailures
    /\ pc = "setup"
    /\ layerName = <<>>
    /\ extension = <<>>
    /\ zooms = <<>>
    /\ stream = <<>>
    /\ coordinates = <<>>
    /\ idx = 0
    /\ progress = <<>>
    /\ attempts = 0
    /\ rendered = FALSE
    /\ errorFile = <<>>
    /\ progressFile = <<>>
    /\ calls = 0
    /\ okCall = 0
    /\ attempted = 0
    /\ outcomes = <<>>
    /\ writes = 0

Setup ==
    /\ pc = "setup"
    /\ pc' = setupOutcome(options)
    /\ IF setupOutcome(options) = "stream"
       THEN /\ layerName' = layerNameOf(options)
            /\ extension' = extensionOf(options)
            /\ zooms' = zoomsOf(options)
       ELSE UNCHANGED <<layerName, extension, zooms>>
    /\ UNCHANGED <<writes, options, backendMode, failuresLeft, stream, coordinates, idx,
                   progress, attempts, rendered, errorFile, progressFile, calls,
                   okCall, attempted, outcomes>>

\* ------------------------------------------------------------- seed loop
\* Line 252: list(coordinates)[:10]
prefix(items) == SubSeq(items, 1, Min(Len(items), MaxPrefix))

\* Variant: The tileset asked before the tile list.
sourceKindMut(o) ==
    IF o.mbtiles_input THEN "tileset"
    ELSE IF o.tile_list THEN "list"
    ELSE "generate"

\* Lines 245-250: the source the options select; the tile list comes first.
sourceKind(o) ==
    IF o.tile_list THEN "list"
    ELSE IF o.mbtiles_input THEN "tileset"
    ELSE "generate"

sourceStream(o, zs) ==
    CASE sourceKind(o) = "list" -> listCoordinates(linesRead(o.tile_list_file))
      [] sourceKind(o) = "tileset" -> tilesetCoordinates(o.tileset)
      [] OTHER -> generateCoordinates(northwest(o.bbox), southeast(o.bbox), zs, o.padding)

\* Lines 245-252.  list() runs the generator to its end, so a line of the tile
\* list that does not parse raises here, before the loop.
CreateStream ==
    /\ pc = "stream"
    /\ IF sourceKind(options) = "list" /\ ~listOk(linesRead(options.tile_list_file))
       THEN /\ pc' = "parse_error"
            /\ UNCHANGED <<stream, coordinates>>
       ELSE /\ stream' = sourceStream(options, zooms)
            /\ coordinates' = prefix(stream')
            /\ pc' = "next"
    /\ UNCHANGED <<writes, options, backendMode, failuresLeft, layerName, extension, zooms,
                   idx, progress, attempts, rendered, errorFile, progressFile, calls,
                   okCall, attempted, outcomes>>

\* Line 255: '%s/%d/%d/%d.%s' % (layer.name(), zoom, column, row, extension)
tilePath(name, coord, ext) ==
    name \o <<"/">> \o FormatD(coord.zoom) \o <<"/">> \o FormatD(coord.column)
         \o <<"/">> \o FormatD(coord.row) \o <<".">> \o ext

\* Variant: The dict of the item before, updated in place.
newProgressMut(old, path, item) ==
    IF "size" \in DOMAIN old
    THEN [tile |-> path, offset |-> item.offset + 1, total |-> item.count, size |-> old.size]
    ELSE [tile |-> path, offset |-> item.offset + 1, total |-> item.count]

\* Variant: The offset one too far.
newProgressAhead(old, path, item) ==
    [tile |-> path, offset |-> item.offset + 2, total |-> item.count]

\* Lines 257-259: the progress dict is built anew for every item.
newProgress(old, path, item) ==
    [tile |-> path, offset |-> item.offset + 1, total |-> item.count]

\* Variant: One retry fewer.
budgetMut(o) == IF o.enable_retries THEN 2 ELSE 1

\* Line 265: options.enable_retries and 3 or 1
budget(o) == IF o.enable_retries THEN 3 ELSE 1

\* Lines 254-266: the for loop takes the next item.
NextItem ==
    /\ pc = "next"
    /\ idx < Len(coordinates)
    /\ idx' = idx + 1
    /\ progress' = newProgress(progress, tilePath(layerName, coordinates[idx'].coord, extension),
                               coordinates[idx'])
    /\ attempts' = budget(options)
    /\ rendered' = FALSE
    /\ calls' = 0
    /\ okCall' = 0
    /\ pc' = "fetch"
    /\ UNCHANGED <<writes, options, backendMode, failuresLeft, layerName, extension, zooms,
                   stream, coordinates, errorFile, progressFile, attempted, outcomes>>

\* Line 254: the list is exhausted and the script ends.
LoopEnd ==
    /\ pc = "next"
    /\ idx = Len(coordinates)
    /\ pc' = "done"
    /\ UNCHANGED <<writes, options, backendMode, failuresLeft, layerName, extension, zooms,
                   stream, coordinates, idx, progress, attempts, rendered, errorFile,
                   progressFile, calls, okCall, attempted, outcomes>>

\* len(content) of the tiles the backend returns.
ContentLengths == {500, 2048}

\* Line 298: '%dKB' % (len(content) / 1024)
sizeText(len) == FormatD(len \div 1024) \o Chars("KB")

\* Lines 268-273 and 293-301: getTile returns.
FetchOk ==
    /\ pc = "fetch"
    /\ backendMode = "flaky"
    /\ \E len \in ContentLengths :
         progress' = [k \in DOMAIN progress \cup {"size"} |->
                        IF k = "size" THEN sizeText(len) ELSE progress[k]]
    /\ rendered' = TRUE
    /\ calls' = calls + 1
    /\ okCall' = calls'
    /\ attempted' = IF calls = 0 THEN attempted + 1 ELSE attempted
    /\ outcomes' = Append(outcomes, "ok")
    /\ pc' = "report"
    /\ UNCHANGED <<writes, options, backendMode, failuresLeft, layerName, extension, zooms,
                   stream, coordinates, idx, attempts, errorFile, progressFile>>

\* Variant: Row written before column.
errorLineMut(coord) ==
    FormatD(coord.zoom) \o <<"/">> \o FormatD(coord.row) \o <<"/">>
        \o FormatD(coord.column) \o <<"\n">>

\* Line 289: '%(zoom)d/%(column)d/%(row)d\n' % coord.__dict__
errorLine(coord) ==
    FormatD(coord.zoom) \o <<"/">> \o FormatD(coord.column) \o <<"/">>
        \o FormatD(coord.row) \o <<"\n">>

\* Variant: An exhausted item skipped whether or not an error list is given.
afterFailureMutSkip(o, left) ==
    IF left # 0 THEN "fetch" ELSE "report"

\* Variant: The item tried again once its attempts are used up and an error
\* list is given.
afterFailureMutRetry(o, left) ==
    IF left = 0 /\ ~o.error_list THEN "backend_error" ELSE "fetch"

\* Lines 284-291: what follows a failed call that left `left` attempts.
afterFailure(o, left) ==
    IF left # 0 THEN "fetch"
    ELSE IF ~o.error_list THEN "backend_error"
    ELSE "report"

\* Variant: A line appended on every failed call.
logsErrorMut(o, left) == o.error_list

\* Lines 284-290: the line is appended once the attempts are used up and an
\* error list is given.
logsError(o, left) == left = 0 /\ o.error_list

\* Lines 268-291: getTile raises.
FetchFail ==
    /\ pc = "fetch"
    /\ backendMode = "failing" \/ failuresLeft > 0
    /\ failuresLeft' = IF backendMode = "flaky" THEN failuresLeft - 1 ELSE failuresLeft
    /\ attempts' = attempts - 1
    /\ calls' = calls + 1
    /\ attempted' = IF calls = 0 THEN attempted + 1 ELSE attempted
    /\ pc' = afterFailure(options, attempts')
    /\ IF logsError(options, attempts')
       THEN errorFile' = Append(errorFile, errorLine(coordinates[idx].coord))
       ELSE UNCHANGED errorFile
    /\ outcomes' = IF attempts' = 0 THEN Append(outcomes, "exhausted") ELSE outcomes
    /\ UNCHANGED <<writes, options, backendMode, layerName, extension, zooms, stream,
                   coordinates, idx, progress, rendered, progressFile, okCall>>

\* Lines 303-306: the progress file is overwritten, then the loop goes on.
Report ==
    /\ pc = "report"
    /\ progressFile' = IF options.progressfile THEN <<progress>> ELSE progressFile
    /\ writes' = IF options.progressfile THEN writes + 1 ELSE writes
    /\ pc' = "next"
    /\ UNCHANGED <<options, backendMode, failuresLeft, layerName, extension, zooms,
                   stream, coordinates, idx, progress, attempts, rendered, errorFile,
                   calls, okCall, attempted, outcomes>>

Next ==
    \/ Setup
    \/ CreateStream
    \/ NextItem
    \/ LoopEnd
    \/ FetchOk
    \/ FetchFail
    \/ Report

Spec == Init /\ [][Next]_vars

\* ------------------------------------------------- the sources on their own
\* The three coordinate sources applied to inputs drawn from bounded sets.
BoundedSeq(S, n) == UNION {[1..k -> S] : k \in 0..n}

ZoomLevels == {0, 1, 2}

SrcFields == {<<"0">>, <<"1", "2">>, <<"-", "3">>, <<"x">>}

SrcLines ==
    {a \o <<"/">> \o b \o <<"/">> \o c \o <<"\n">> : a \in SrcFields, b \in SrcFields, c \in SrcFields}
    \cup {a \o <<"/">> \o b \o <<"\n">> : a \in SrcFields, b \in SrcFields}
    \cup {<<"\n">>}

SrcTiles == {Coordinate(0, 0, 0), Coordinate(1, 0, 1), Coordinate(0, 1, 1)}

SrcBase == [config |-> TRUE, layer |-> Chars("osm"), bbox |-> <<0, 0, 0, 0>>, padding |-> 0,
            zooms |-> <<>>, extension |-> DefaultExtension, outputdirectory |-> FALSE,
            mbtiles_output |-> FALSE, mbtiles_input |-> FALSE, tileset |-> NoTileset,
            tile_list |-> FALSE, tile_list_file |-> <<>>, error_list |-> FALSE,
            enable_retries |-> FALSE, progressfile |-> FALSE]

SrcOptions ==
    {[SrcBase EXCEPT !.bbox = b, !.padding = p] :
        b \in (0..MaxCoord) \X (0..MaxCoord) \X (0..MaxCoord) \X (0..MaxCoord),
        p \in 0..MaxPadding}
    \cup {[SrcBase EXCEPT !.tile_list = TRUE, !.tile_list_file = f] :
            f \in BoundedSeq(SrcLines, MaxLines) \cup TileListFiles}
    \cup {[SrcBase EXCEPT !.mbtiles_input = TRUE, !.tileset = t] :
            t \in Tilesets \cup {[tiles |-> c, format |-> <<>>] : c \in BoundedSeq(SrcTiles, MaxTiles)}}

SrcInit ==
    /\ options \in SrcOptions
    /\ zooms \in (IF sourceKind(options) = "generate"
                  THEN BoundedSeq(ZoomLevels, MaxZooms) ELSE {<<>>})
    /\ backendMode = "failing"
    /\ failuresLeft = 0
    /\ pc = "source"
    /\ layerName = <<>>
    /\ extension = <<>>
    /\ stream = <<>>
    /\ coordinates = <<>>
    /\ idx = 0
    /\ progress = <<>>
    /\ attempts = 0
    /\ rendered = FALSE
    /\ errorFile = <<>>
    /\ progressFile = <<>>
    /\ calls = 0
    /\ okCall = 0
    /\ attempted = 0
    /\ outcomes = <<>>
    /\ writes = 0

SrcFrame == UNCHANGED <<writes, options, backendMode, failuresLeft, layerName, extension, zooms,
                        coordinates, idx, progress, attempts, rendered, errorFile,
                        progressFile, calls, okCall, attempted, outcomes>>

\* generateCoordinates(ul, lr, zooms, padding), run to its end.
RunGenerate ==
    /\ pc = "source"
    /\ sourceKind(options) = "generate"
    /\ stream' = generateCoordinates(northwest(options.bbox), southeast(options.bbox),
                                     zooms, options.padding)
    /\ pc' = "yielded"
    /\ SrcFrame

\* listCoordinates(filename), run to its end.
RunList ==
    /\ pc = "source"
    /\ sourceKind(options) = "list"
    /\ IF listOk(linesRead(options.tile_list_file))
       THEN stream' = listCoordinates(linesRead(options.tile_list_file)) /\ pc' = "yielded"
       ELSE stream' = stream /\ pc' = "parse_error"
    /\ SrcFrame

\* tilesetCoordinates(filename), run to its end.
RunTileset ==
    /\ pc = "source"
    /\ sourceKind(options) = "tileset"
    /\ stream' = tilesetCoordinates(options.tileset)
    /\ pc' = "yielded"
    /\ SrcFrame

SrcNext ==
    \/ RunGenerate
    \/ RunList
    \/ RunTileset

SpecSource == SrcInit /\ [][SrcNext]_vars

\* ------------------------------------------------------------- properties
\* The attempt budget as the documentation states it: 1 attempt, or 3 with
\* retries enabled.
StatedBudget == IF options.enable_retries THEN 3 ELSE 1

\* Exhausted items among the first n that left the while loop.
RECURSIVE ExhaustedAmong(_)
ExhaustedAmong(n) ==
    IF n = 0 THEN 0
    ELSE ExhaustedAmong(n - 1) + (IF outcomes[n] = "exhausted" THEN 1 ELSE 0)

\* A line of text reads zoom/column/row of the coordinate and ends in "\n".
ReadsAs(line, coord) ==
    LET f == Split(Strip(line), "/")
    IN  /\ line[Len(line)] = "\n"
        /\ Len(f) = 3
        /\ \A i \in 1..3 : IntOk(f[i])
        /\ IntValue(f[1]) = coord.zoom
        /\ IntValue(f[2]) = coord.column
        /\ IntValue(f[3]) = coord.row

\* C1: when the job ends without aborting, every one of the `total`
\* coordinates of the stream has been attempted against the backend.
C1_Coverage ==
    pc = "done" =>
        /\ attempted = Len(stream)
        /\ \A i \in 1..Len(stream) : stream[i].count = attempted

\* C2: with a backend that fails on every call, an item gets exactly 1 call
\* (3 with retries enabled), and it is routed to the error list or the job
\* aborted only after the last of them.
C2_AlwaysFailingCalls ==
    (backendMode = "failing" /\ idx >= 1) =>
        /\ pc = "fetch" => /\ calls < StatedBudget
                           /\ Len(errorFile) = idx - 1
        /\ pc \in {"report", "next", "done", "backend_error"} => calls = StatedBudget
        /\ pc = "backend_error" <=> (~options.error_list /\ calls = StatedBudget)

C2_Witness ==
    /\ backendMode = "failing"
    /\ options.enable_retries
    /\ pc = "report"
    /\ calls = 3
    /\ idx = 2
    /\ Len(errorFile) = 2

\* C3: an item whose j-th call succeeds, j within the budget, ends succeeded:
\* no further call is made for it, no error-list line is written for it, the
\* job does not abort and the loop goes on.
C3_SuccessWithinBudget ==
    (rendered /\ idx >= 1) =>
        /\ okCall \in 1..StatedBudget
        /\ calls = okCall
        /\ Len(outcomes) = idx /\ outcomes[idx] = "ok"
        /\ Len(errorFile) = (IF options.error_list THEN ExhaustedAmong(idx - 1) ELSE 0)
        /\ pc \in {"report", "next", "done"}

C3_Witness ==
    /\ options.enable_retries
    /\ options.error_list
    /\ rendered
    /\ okCall = 3
    /\ pc = "next"
    /\ errorFile = <<>>

\* C4: with an error list and a backend that always fails, after N items the
\* error list holds exactly N lines, line i reading zoom/column/row of the
\* i-th coordinate, and the job does not abort.
C4_ErrorListLines ==
    (options.error_list /\ backendMode = "failing") =>
        /\ pc # "backend_error"
        /\ pc = "fetch" => Len(errorFile) = idx - 1
        /\ pc \in {"report", "next", "done"} => Len(errorFile) = idx
        /\ pc = "done" => Len(errorFile) = Len(coordinates)
        /\ \A i \in 1..Len(errorFile) : ReadsAs(errorFile[i], coordinates[i].coord)

C4_Witness ==
    /\ options.error_list
    /\ backendMode = "failing"
    /\ pc = "done"
    /\ Len(errorFile) = MaxPrefix
    /\ \E i \in 1..Len(errorFile) : coordinates[i].coord.row # coordinates[i].coord.column

\* C5: without an error list, an item that uses up its attempts aborts the
\* job there: no later coordinate gets a backend call and no error-list line
\* is written.
C5_AbortWithoutErrorList ==
    /\ (idx >= 1 /\ attempts = 0 /\ ~options.error_list) => pc = "backend_error"
    /\ pc = "backend_error" =>
          /\ ~options.error_list
          /\ ~rendered /\ calls = StatedBudget
          /\ attempted = idx
          /\ ~ENABLED Next
    /\ ~options.error_list => errorFile = <<>>

C5_Witness ==
    /\ pc = "backend_error"
    /\ idx = 3
    /\ idx < Len(coordinates)
    /\ options.enable_retries

\* A zoom argument that is the decimal numeral of a non-negative integer.
NonNegativeNumeral(token) == \E n \in 0..99 : FormatD(n) = token

\* The configuration errors: a missing configuration or layer or an unknown
\* layer where the configuration is needed, a bad zoom argument, a negative
\* padding.
ConfigurationError(o) ==
    \/ /\ ~((o.outputdirectory \/ o.mbtiles_output) /\ o.mbtiles_input)
       /\ (~o.config \/ o.layer = LayerNone \/ o.layer \notin ConfigLayers)
    \/ \E i \in 1..Len(o.zooms) : ~NonNegativeNumeral(o.zooms[i])
    \/ o.padding < 0

\* C6: a configuration error ends the job during setup: no coordinate stream
\* is created, no backend call is made, no progress snapshot and no
\* error-list line is written.
C6_ConfigurationErrorEndsSetup ==
    ConfigurationError(options) =>
        /\ pc \in {"setup", "usage_error", "name_error"}
        /\ stream = <<>> /\ coordinates = <<>> /\ idx = 0
        /\ attempted = 0 /\ calls = 0
        /\ progressFile = <<>>
        /\ errorFile = <<>>

C6_Witness ==
    /\ pc = "usage_error"
    /\ options.padding < 0
    /\ options.config /\ options.layer \in ConfigLayers
    /\ ~options.mbtiles_output
    /\ \A i \in 1..Len(options.zooms) : NonNegativeNumeral(options.zooms[i])
    /\ Len(options.zooms) = 2

\* The tiles of the padded inclusive span of the bounding box, per position
\* of the zoom list.
SpanTiles(o, zs) ==
    UNION {LET nw == zoomToContainer(locationCoordinate(Max(o.bbox[1], o.bbox[3]),
                                                        Min(o.bbox[2], o.bbox[4])), zs[i])
               se == zoomToContainer(locationCoordinate(Min(o.bbox[1], o.bbox[3]),
                                                        Max(o.bbox[2], o.bbox[4])), zs[i])
           IN  {<<i, r, c>> : r \in (nw.row - o.padding)..(se.row + o.padding),
                              c \in (nw.column - o.padding)..(se.column + o.padding)}
           : i \in 1..Len(zs)}

\* C7: the flood-fill source's total is the sum over the zoom list of
\* rows x columns of the padded span, and it yields that many items.
C7_FloodFillTotal ==
    (pc = "yielded" /\ sourceKind(options) = "generate") =>
        LET total == Cardinality(SpanTiles(options, zooms))
        IN  /\ Len(stream) = total
            /\ \A i \in 1..Len(stream) : stream[i].count = total

C7_Witness ==
    /\ pc = "yielded"
    /\ sourceKind(options) = "generate"
    /\ options.padding = 1
    /\ options.bbox[1] < options.bbox[3] /\ options.bbox[2] > options.bbox[4]
    /\ zooms = <<2, 1>>
    /\ Len(stream) > 16

\* C8: every source yields the offsets 0, 1, ..., total-1 in this order, and
\* the same total in every item.
C8_Offsets ==
    pc = "yielded" =>
        \A i \in 1..Len(stream) :
            /\ stream[i].offset = i - 1
            /\ stream[i].count = Len(stream)

C8_Witness ==
    /\ pc = "yielded"
    /\ sourceKind(options) = "tileset"
    /\ Len(stream) = 3

\* C9: with a progress file, once the k-th item of a stream of N is done the
\* file holds offset k, total N and the tile path of the k-th coordinate, and
\* a size exactly when that item's fetch succeeded.
C9_ProgressSnapshot ==
    (options.progressfile /\ pc \in {"next", "done"} /\ idx >= 1) =>
        /\ Len(progressFile) = 1
        /\ LET snap == progressFile[1]
               coord == coordinates[idx].coord
               parts == Split(snap.tile, "/")
           IN  /\ snap.offset = idx
               /\ snap.total = Len(stream)
               /\ Len(parts) = 4
               /\ parts[1] = layerName
               /\ IntValue(parts[2]) = coord.zoom
               /\ IntValue(parts[3]) = coord.column
               /\ parts[4] = FormatD(coord.row) \o <<".">> \o extension
               /\ ("size" \in DOMAIN snap) <=> (outcomes[idx] = "ok")
               /\ ("size" \in DOMAIN snap) =>
                     /\ Len(snap.size) >= 3
                     /\ SubSeq(snap.size, Len(snap.size) - 1, Len(snap.size)) = <<"K", "B">>
                     /\ IsDigit(SubSeq(snap.size, 1, Len(snap.size) - 2))

C9_Witness ==
    /\ options.progressfile
    /\ pc = "next"
    /\ idx = 3
    /\ outcomes = <<"ok", "ok", "exhausted">>
    /\ progressFile[1].offset = 3
    /\ "size" \notin DOMAIN progressFile[1]
    /\ Len(stream) > MaxPrefix

\* C10: the explicit-list source yields one coordinate per line, in file
\* order, the fields read as zoom/column/row, with total the number of lines;
\* 12/600/1200, 12/601/1200 gives total 2 and these two coordinates at
\* offsets 0 and 1.
C10_ListRoundTrip ==
    (pc = "yielded" /\ sourceKind(options) = "list") =>
        /\ Len(stream) = Len(options.tile_list_file)
        /\ \A i \in 1..Len(stream) :
              /\ stream[i].count = Len(options.tile_list_file)
              /\ ReadsAs(options.tile_list_file[i], stream[i].coord)
        /\ options.tile_list_file =
              <<<<"1", "2", "/", "6", "0", "0", "/", "1", "2", "0", "0", "\n">>,
                <<"1", "2", "/", "6", "0", "1", "/", "1", "2", "0", "0", "\n">>>>
           => stream = <<[offset |-> 0, count |-> 2,
                          coord |-> [zoom |-> 12, column |-> 600, row |-> 1200]],
                         [offset |-> 1, count |-> 2,
                          coord |-> [zoom |-> 12, column |-> 601, row |-> 1200]]>>

C10_Witness ==
    /\ pc = "yielded"
    /\ sourceKind(options) = "list"
    /\ Len(stream) = 2
    /\ stream[2].coord = [zoom |-> 12, column |-> 601, row |-> 1200]

\* The containing tiles of the two corners at the zoom level, without padding.
CornerNW(o, zoom) ==
    zoomToContainer(locationCoordinate(Max(o.bbox[1], o.bbox[3]), Min(o.bbox[2], o.bbox[4])), zoom)

CornerSE(o, zoom) ==
    zoomToContainer(locationCoordinate(Min(o.bbox[1], o.bbox[3]), Max(o.bbox[2], o.bbox[4])), zoom)

\* The rows and the columns the stream holds for a zoom level.
RowsAt(zoom) == {stream[i].coord.row : i \in {j \in 1..Len(stream) : stream[j].coord.zoom = zoom}}

ColumnsAt(zoom) == {stream[i].coord.column : i \in {j \in 1..Len(stream) : stream[j].coord.zoom = zoom}}

\* C11: at every zoom level the row span and the column span with padding
\* p >= 0 are the spans of padding 0 grown by p tiles on both sides: equal
\* for p = 0, strictly larger for p > 0.
C11_PaddingGrowsSpans ==
    (pc = "yielded" /\ sourceKind(options) = "generate") =>
        \A k \in 1..Len(zooms) :
            LET nw == CornerNW(options, zooms[k])
                se == CornerSE(options, zooms[k])
                p == options.padding
            IN  /\ RowsAt(zooms[k]) = (nw.row - p)..(se.row + p)
                /\ ColumnsAt(zooms[k]) = (nw.column - p)..(se.column + p)
                /\ Cardinality(RowsAt(zooms[k])) = (se.row - nw.row + 1) + 2 * p
                /\ Cardinality(ColumnsAt(zooms[k])) = (se.column - nw.column + 1) + 2 * p
                /\ p > 0 => /\ Cardinality(RowsAt(zooms[k])) > se.row - nw.row + 1
                            /\ Cardinality(ColumnsAt(zooms[k])) > se.column - nw.column + 1

C11_Witness ==
    /\ pc = "yielded"
    /\ sourceKind(options) = "generate"
    /\ options.padding = 1
    /\ zooms = <<1, 2>>
    /\ Cardinality(RowsAt(2)) = 4
    /\ Cardinality(ColumnsAt(2)) = 5

\* Items of the stream before those of position k of the zoom list.
RECURSIVE BlockStart(_, _, _)
BlockStart(o, zs, k) ==
    IF k <= 1 THEN 0
    ELSE LET nw == CornerNW(o, zs[k - 1])
             se == CornerSE(o, zs[k - 1])
         IN  BlockStart(o, zs, k - 1)
             + (se.row - nw.row + 1 + 2 * o.padding) * (se.column - nw.column + 1 + 2 * o.padding)

\* C14: the flood-fill source yields the zoom levels in the order given
\* (unsorted, duplicates kept), within a level the rows ascending and within
\* a row the columns ascending, the offset counting on across levels.
C14_FloodFillOrder ==
    (pc = "yielded" /\ sourceKind(options) = "generate") =>
        /\ Len(stream) = BlockStart(options, zooms, Len(zooms) + 1)
        /\ \A k \in 1..Len(zooms) :
              LET nw == CornerNW(options, zooms[k])
                  se == CornerSE(options, zooms[k])
                  cols == se.column - nw.column + 1 + 2 * options.padding
                  start == BlockStart(options, zooms, k)
              IN  \A n \in 0..(BlockStart(options, zooms, k + 1) - start - 1) :
                     /\ stream[start + n + 1].offset = start + n
                     /\ stream[start + n + 1].coord.zoom = zooms[k]
                     /\ stream[start + n + 1].coord.row = nw.row - options.padding + (n \div cols)
                     /\ stream[start + n + 1].coord.column = nw.column - options.padding + (n % cols)

C14_Witness ==
    /\ pc = "yielded"
    /\ sourceKind(options) = "generate"
    /\ zooms = <<2, 1>>
    /\ options.padding = 0
    /\ Len(stream) = 10
    /\ stream[2].coord = [row |-> 1, column |-> 1, zoom |-> 2]
    /\ stream[7].coord.zoom = 1

\* C15: every coordinate the flood-fill source yields is a tile of its zoom
\* level: 0 <= row < 2^zoom and 0 <= column < 2^zoom.
C15_InsideGrid ==
    (pc = "yielded" /\ sourceKind(options) = "generate") =>
        \A i \in 1..Len(stream) :
            /\ stream[i].coord.row >= 0
            /\ stream[i].coord.column >= 0
            /\ stream[i].coord.row < Pow2(stream[i].coord.zoom)
            /\ stream[i].coord.column < Pow2(stream[i].coord.zoom)

\* C12: with a progress file, every item that reaches a terminal state
\* (succeeded or exhausted, with or without an error list) causes exactly
\* one write of the progress file, after its last attempt and before the
\* first attempt of the next item; retried failures cause none.
C12_OneWritePerItem ==
    options.progressfile =>
        /\ pc = "fetch" => writes = idx - 1
        /\ pc = "report" => writes = idx - 1
        /\ pc \in {"next", "done"} => writes = idx
        /\ pc = "backend_error" => writes = idx

\* A line of the tile list with the wrong number of fields or a field that
\* is no integer.
Malformed(line) ==
    LET f == Split(Strip(line), "/")
    IN  \/ Len(f) # 3
        \/ \E i \in 1..Len(f) :
              LET body == IF Len(f[i]) > 0 /\ f[i][1] = "-" THEN Tail(f[i]) ELSE f[i]
              IN  \/ Len(body) = 0
                  \/ \E j \in 1..Len(body) :
                        body[j] \notin {"0", "1", "2", "3", "4", "5", "6", "7", "8", "9"}

\* C13: a malformed line anywhere in the tile list, the last line included,
\* aborts the job before any backend call; the list never reaches the retry
\* loop or the error list.
C13_MalformedListAborts ==
    (options.tile_list /\ \E i \in 1..Len(options.tile_list_file) :
                              Malformed(options.tile_list_file[i])) =>
        /\ pc \in {"setup", "usage_error", "name_error", "stream", "parse_error"}
        /\ idx = 0 /\ attempted = 0 /\ calls = 0
        /\ errorFile = <<>>
        /\ progressFile = <<>>

C13_Witness ==
    /\ pc = "parse_error"
    /\ options.error_list
    /\ Len(options.tile_list_file) = 2
    /\ ~Malformed(options.tile_list_file[1])
    /\ Malformed(options.tile_list_file[2])

\* The coordinates of a stream, in its order.
Coords(items) == [i \in 1..Len(items) |-> items[i].coord]

ValidOptions(o) ==
    /\ o.config /\ o.layer \in ConfigLayers
    /\ \A i \in 1..Len(o.zooms) : NonNegativeNumeral(o.zooms[i])
    /\ o.padding >= 0

\* C17: with a packaged-tileset output configured, alone or with an output
\* directory, and otherwise valid options, setup completes and the loop
\* starts: choosing this destination never makes setup fail.
C17_TilesetOutputSetup ==
    (options.mbtiles_output /\ ValidOptions(options)) =>
        pc \notin {"usage_error", "name_error"}

\* C18: a progress snapshot with offset k means that items 1..k have all
\* left the retry loop and that the error-list line of each exhausted one
\* among them is written; the offset never runs ahead of the completed
\* items and never decreases.
C18_State ==
    Len(progressFile) = 1 =>
        LET k == progressFile[1].offset
        IN  /\ k >= 1 /\ k <= Len(outcomes) /\ k <= idx
            /\ writes >= 1
            /\ options.error_list => Len(errorFile) >= ExhaustedAmong(k)
            /\ ~options.error_list => ExhaustedAmong(k) = 0

C18_Step ==
    (Len(progressFile) = 1) =>
        /\ Len(progressFile') = 1
        /\ progressFile'[1].offset >= progressFile[1].offset

C18_DurableRecord == [](C18_State) /\ [][C18_Step]_vars

C18_Witness ==
    /\ Len(progressFile) = 1
    /\ progressFile[1].offset = 2
    /\ pc = "fetch"
    /\ idx = 3
    /\ calls = 0
    /\ outcomes = <<"exhausted", "ok">>
    /\ Len(errorFile) = 1

\* The coordinates of the items that used up their attempts, in the order
\* they did.
RECURSIVE ExhaustedCoords(_)
ExhaustedCoords(n) ==
    IF n = 0 THEN <<>>
    ELSE IF outcomes[n] = "exhausted"
         THEN Append(ExhaustedCoords(n - 1), coordinates[n].coord)
         ELSE ExhaustedCoords(n - 1)

\* C20: the lines a run appends to an empty error list, read back by the
\* explicit-list source, yield exactly the coordinates that used up their
\* attempts, with the same zoom, column and row, in the order they failed,
\* and with total their number.
C20_ErrorListRoundTrip ==
    options.error_list =>
        /\ listOk(errorFile)
        /\ LET back == listCoordinates(errorFile)
               failed == ExhaustedCoords(Len(outcomes))
           IN  /\ Coords(back) = failed
               /\ \A i \in 1..Len(back) : back[i].count = Len(failed) /\ back[i].offset = i - 1

C20_Witness ==
    /\ options.error_list
    /\ pc = "done"
    /\ outcomes = <<"exhausted", "ok", "exhausted", "ok", "ok", "ok", "ok", "ok", "ok", "ok">>
    /\ Len(errorFile) = 2
    /\ coordinates[1].coord.column < 0
    /\ coordinates[3].coord.column > 0

\* The job has ended: completed, aborted by the backend's failure, or ended
\* before the loop.
Ended == pc \in {"done", "backend_error", "usage_error", "name_error", "parse_error"}

\* Steps the job can still take at most: 5 per item not yet taken (the
\* item taken, at most 3 calls, the report), and those left of the item in
\* hand.
Rank ==
    CASE pc = "setup" -> 5 * MaxPrefix + 3
      [] pc = "stream" -> 5 * MaxPrefix + 2
      [] pc = "next" -> 5 * (Len(coordinates) - idx) + 1
      [] pc = "fetch" -> 5 * (Len(coordinates) - idx) + 2 + attempts
      [] pc = "report" -> 5 * (Len(coordinates) - idx) + 2
      [] OTHER -> 0

\* The guard of one of the steps holds: setup, the stream and the report
\* always go on, the loop takes an item or ends, and a backend call returns
\* or raises.
CanStep ==
    \/ pc \in {"setup", "stream", "report"}
    \/ pc = "next" /\ idx <= Len(coordinates)
    \/ pc = "fetch" /\ (backendMode = "flaky" \/ backendMode = "failing" \/ failuresLeft > 0)

\* C19: for any finite stream and any backend behaviour the job eventually
\* ends, completed or aborted: until it has ended a step is always possible
\* and every step lowers the number of steps left, which is never negative;
\* an item's retry loop makes at most 1 (or 3) backend calls, and an
\* exhausted item with an error list leaves the loop.
C19_Termination ==
    /\ [](Ended \/ CanStep)
    /\ [](Rank >= 0 /\ (Ended <=> Rank = 0))
    /\ [][Rank' < Rank]_vars
    /\ [](calls <= StatedBudget)
    /\ []((idx >= 1 /\ attempts = 0 /\ options.error_list) => pc \in {"report", "next", "done"})

C19_Witness ==
    /\ pc = "done"
    /\ options.error_list
    /\ options.enable_retries
    /\ backendMode = "failing"
    /\ idx = MaxPrefix
    /\ calls = 3
    /\ attempts = 0

====
